---- MODULE Spec2Model ----
(***************************************************************************)
(* Model of robust-equilibrium-lib's StaticEquilibrium engine              *)
(* (src/src/static_equilibrium.cpp) and of the cddlib set-up in            *)
(* src/src/util.cpp.                                                       *)
(*                                                                         *)
(* Numeric data the engine only hands to its collaborators is kept         *)
(* symbolic: a block of the generator matrix is named by the contact and   *)
(* friction coefficient it was computed from, and the answers of the LP    *)
(* solver and of the double-description routine are inputs of the action   *)
(* that calls them.                                                        *)
(***************************************************************************)
EXTENDS Integers, Sequences, FiniteSets, TLC

VARIABLES
  \* ---- engine state (members of StaticEquilibrium)
  m_algorithm,               \* StaticEquilibriumAlgorithm selector
  m_G_centr,                 \* generator matrix: one block of cg columns per contact
  m_b0_to_emax_coefficient,  \* scale between b0 and e_max
  m_HD,                      \* cached half-space data m_H, m_h, m_HD, m_Hd
  m_solver_type,             \* SolverLP chosen at construction
  m_generatorsPerContact,    \* cg, clamped to at least 3 at construction
  m_solver,                  \* the LP solver handle: objective value of its last solve
  \* ---- the last call on the engine: the operation, its arguments (of the
  \* contact normals, the position of the first one that fails the norm check,
  \* 0 if none does), the returned value, the solver call made, the outputs
  op, args, ret, lp, out,
  \* ---- concurrent queries on one engine
  qpc,
  \* ---- process-wide cddlib initialisation
  m_is_cdd_initialized, initCalls, ctor,
  \* ---- computePolytopeProjection on one output of the double-description routine
  b_A, linset, rowMajor, m_H, m_h, ppDone

engineVars == <<m_algorithm, m_G_centr, m_b0_to_emax_coefficient, m_HD,
                m_solver_type, m_generatorsPerContact>>
callVars   == <<op, args, ret, lp, out>>
cddVars    == <<m_is_cdd_initialized, initCalls, ctor>>
ppVars     == <<b_A, linset, rowMajor, m_H, m_h, ppDone>>
vars == <<engineVars, m_solver, callVars, qpc, cddVars, ppVars>>

----------------------------------------------------------------------------
\* Bounds of the model

MaxContacts == 2
NumQueryThreads == 2
NumCtorThreads == 3
MaxEngines == 2
MaxRowsize == 2
HColumns == 2

\* Program constants
MinGeneratorsPerContact == 3

----------------------------------------------------------------------------
\* Value domains

Algorithms == {"LP", "LP2", "DLP", "PP", "IP", "DIP"}
LPStatus == {"OPTIMAL", "INFEASIBLE", "UNBOUNDED", "ERROR"}
SolverTypes == {"QPOASES", "CLP"}

\* Norms of contact normals in units of 1e-6: 0.5 and 1.000001
NormsE6 == {500000, 1000001}
Points == {1}
Mus == {1, 2}

\* Objective values the solver may report (one below the -1e7 threshold)
ObjValues == {-10000001, 2}

Dirs == {<<0, -1, 2>>}
Origins == {<<0, 0, 0>>, <<1, 2, 3>>}
Emaxs == {0, 1}

\* Numbers of inequality rows the double-description routine may return
RowCounts == {2}

VecAdd(u, v) == <<u[1] + v[1], u[2] + v[2], u[3] + v[3]>>
VecScale(u, k) == <<u[1] * k, u[2] * k, u[3] * k>>
ZeroVec == <<0, 0, 0>>

Abs(x) == IF x < 0 THEN -x ELSE x

----------------------------------------------------------------------------
\* Contacts and the generator matrix

Contacts == [p : Points, n : NormsE6]
ContactLists == UNION {[1..k -> Contacts] : k \in 0..MaxContacts}

\* fabs(contactNormals.row(i).norm()-1.0) > 1e-6
BadNormal(n) == Abs(n - 1000000) > 1

\* The cg columns A*G of one contact: a function of the contact point, of the
\* contact normal and of the friction coefficient.
Block(c, mu) == [p |-> c.p, n |-> c.n, mu |-> mu]

\* A block that no call has written since its storage was allocated: it holds
\* whatever the allocation held. The engine never branches on the content of
\* a block; it only hands the matrix to the solver and to the projection.
Unwritten == [p |-> 0, n |-> 0, mu |-> 0]

\* Number of columns of a generator matrix of the engine
Cols(G) == Len(G) * m_generatorsPerContact

\* Index of the first contact whose normal fails the norm check, or c+1
FirstBad(contacts) ==
  IF \E i \in 1..Len(contacts) : BadNormal(contacts[i].n)
  THEN CHOOSE i \in 1..Len(contacts) :
         /\ BadNormal(contacts[i].n)
         /\ \A j \in 1..(i-1) : ~BadNormal(contacts[j].n)
  ELSE Len(contacts) + 1

\* m_G_centr.resize(6, c*cg): the storage is kept when the size is unchanged,
\* and is a fresh allocation, all of it unwritten, otherwise
Resized(G, c) == IF c = Len(G) THEN G ELSE [i \in 1..c |-> Unwritten]

\* The loop over the contacts: blocks 1..stop-1 are written, the others stay
GeneratorLoop(storage, contacts, mu, stop) ==
  [i \in 1..Len(contacts) |-> IF i < stop THEN Block(contacts[i], mu) ELSE storage[i]]

\* (f0.cross(G.col(0))).norm() for the generators of the last contact: it
\* depends on the friction coefficient and on cg only.
ConeCoefficient(mu) == mu
CoefValues == {ConeCoefficient(mu) : mu \in Mus}

\* The half-space cache: never built, or built from the generator matrix src
\* with `rows` inequality rows.
NoHalfSpace == [built |-> FALSE, src |-> <<>>, rows |-> 0]
HalfSpaceOf(G, rows) == [built |-> TRUE, src |-> G, rows |-> rows]

----------------------------------------------------------------------------
\* Records of a call

NoArgs == [badNormal |-> 0, e_max |-> 0, a |-> ZeroVec, a0 |-> ZeroVec]
NoCall == [called |-> FALSE, status |-> "ERROR", sol |-> 0]
NoOut  == [written |-> FALSE, robustness |-> 0, equilibrium |-> FALSE, com |-> ZeroVec]

\* The solver handle: solve(...) leaves the objective value of the problem it
\* solved in the handle, getObjectiveValue() returns what the handle holds.
Solver_solve(obj) == m_solver' = obj
Solver_getObjectiveValue == m_solver

\* m_solver->solve(...) returning status st with objective value obj. In the
\* primal problems the objective is minus the last variable (c(m) = -1), which
\* is the entry b_p(m) of the solution that findExtremumOverLine reads.
Solved(st, obj) == [called |-> TRUE, status |-> st, sol |-> -obj]

OutRobustness(r) == [NoOut EXCEPT !.written = TRUE, !.robustness = r]
OutEquilibrium(e) == [NoOut EXCEPT !.written = TRUE, !.equilibrium = e]
OutCom(c) == [NoOut EXCEPT !.written = TRUE, !.com = c]

otherVars == <<qpc, cddVars, ppVars>>

----------------------------------------------------------------------------
\* bool StaticEquilibrium::setNewContacts(points, normals, frictionCoefficient, alg)

setNewContacts ==
  \E contacts \in ContactLists, mu \in Mus, alg \in Algorithms :
    LET c == Len(contacts)
        stop == FirstBad(contacts)
    IN /\ op' = "setNewContacts"
       /\ args' = [NoArgs EXCEPT !.badNormal = IF stop <= c THEN stop ELSE 0]
       /\ lp' = NoCall
       /\ out' = NoOut
       /\ UNCHANGED <<m_solver_type, m_generatorsPerContact, m_solver, otherVars>>
       /\ IF alg \in {"IP", "DIP"}
          THEN /\ ret' = "false"
               /\ UNCHANGED <<m_algorithm, m_G_centr, m_b0_to_emax_coefficient, m_HD>>
          ELSE /\ m_algorithm' = alg
               /\ m_G_centr' = GeneratorLoop(Resized(m_G_centr, c), contacts, mu, stop)
               /\ IF stop <= c
                  THEN /\ ret' = "false"
                       /\ UNCHANGED <<m_b0_to_emax_coefficient, m_HD>>
                  ELSE /\ IF c = 0
                          THEN m_b0_to_emax_coefficient' \in CoefValues
                          ELSE m_b0_to_emax_coefficient' = ConeCoefficient(mu)
                       /\ IF alg = "PP"
                          THEN \E ok \in BOOLEAN, rows \in RowCounts :
                                 IF ok
                                 THEN /\ m_HD' = HalfSpaceOf(m_G_centr', rows)
                                      /\ ret' = "true"
                                 ELSE /\ UNCHANGED m_HD
                                      /\ ret' = "false"
                          ELSE /\ UNCHANGED m_HD
                               /\ ret' = "true"

----------------------------------------------------------------------------
\* Unit conversion and the interpretation of the solver's status

convert_b0_to_emax(b0) == b0 * m_b0_to_emax_coefficient

\* computeEquilibriumRobustness, dual LP: "switch UNFEASIBLE and UNBOUNDED flags"
RobustnessDualStatus(st) ==
  IF st = "INFEASIBLE" THEN "UNBOUNDED"
  ELSE IF st = "UNBOUNDED" THEN "INFEASIBLE"
  ELSE st

\* The switch left out: the solver's status is passed on as it is
LineDualStatus_NoSwitch(st) == st

\* findExtremumOverLine, dual LP: the same switch
LineDualStatus(st) ==
  IF st = "INFEASIBLE" THEN "UNBOUNDED"
  ELSE IF st = "UNBOUNDED" THEN "INFEASIBLE"
  ELSE st

\* findExtremumOverLine, dual LP, solver status OPTIMAL with objective p:
\* QPOASES cannot detect unboundedness, a large negative p is taken for it
LineDualOptimalStatus(solverType, p) ==
  IF solverType = "QPOASES" /\ p < -10000000 THEN "UNBOUNDED" ELSE "OPTIMAL"

\* Status returned by computeEquilibriumRobustness once solve returned st
RobustnessStatus(alg, st) ==
  IF alg \in {"LP", "LP2"} THEN st
  ELSE IF st = "OPTIMAL" THEN st ELSE RobustnessDualStatus(st)

\* robustness written by computeEquilibriumRobustness once solve returned
\* OPTIMAL and getObjectiveValue() returned obj
RobustnessValue(alg, obj) ==
  IF alg \in {"LP", "LP2"} THEN convert_b0_to_emax(-1 * obj)
  ELSE convert_b0_to_emax(obj)

\* Status and CoM of findExtremumOverLine, primal LP, once solve returned st
\* with solution b_p
LinePrimalStatus(st) == st
\* The default of the failure path left out
LinePrimalCom_NoDefault(st, a, a0, b_p_m) == VecAdd(a0, VecScale(a, b_p_m))
LinePrimalCom(st, a, a0, b_p_m) ==
  IF st = "OPTIMAL" THEN VecAdd(a0, VecScale(a, b_p_m)) ELSE a0

\* Status and CoM of findExtremumOverLine, dual LP, once solve returned st and,
\* when st is OPTIMAL, getObjectiveValue() returned p
LineDualReturn(st, p) ==
  IF st = "OPTIMAL" THEN LineDualOptimalStatus(m_solver_type, p) ELSE LineDualStatus(st)
LineDualCom(st, a, a0, p) ==
  IF st = "OPTIMAL" THEN VecAdd(a0, VecScale(a, p)) ELSE a0

----------------------------------------------------------------------------
\* LP_status StaticEquilibrium::computeEquilibriumRobustness(com, robustness)

computeEquilibriumRobustness ==
  /\ op' = "computeEquilibriumRobustness"
  /\ args' = NoArgs
  /\ UNCHANGED <<engineVars, otherVars>>
  /\ IF Cols(m_G_centr) = 0
     THEN /\ ret' = "INFEASIBLE"
          /\ lp' = NoCall
          /\ out' = NoOut
          /\ UNCHANGED m_solver
     ELSE IF m_algorithm \in {"LP", "LP2", "DLP"}
     THEN \E st \in LPStatus, obj \in ObjValues :
            /\ lp' = Solved(st, obj)
            /\ Solver_solve(obj)
            /\ out' = IF st = "OPTIMAL"
                      THEN OutRobustness(RobustnessValue(m_algorithm, Solver_getObjectiveValue'))
                      ELSE NoOut
            /\ ret' = RobustnessStatus(m_algorithm, st)
     ELSE /\ ret' = "ERROR"
          /\ lp' = NoCall
          /\ out' = NoOut
          /\ UNCHANGED m_solver

----------------------------------------------------------------------------
\* LP_status StaticEquilibrium::checkRobustEquilibrium(com, equilibrium, e_max)

\* VectorX res = m_HD * com + m_Hd: one entry per row of the cached system
Residuals == [1..m_HD.rows -> {-1, 0, 1}]

\* The loop over res: equilibrium unless some entry is positive
AllRowsSatisfied(res) == \A i \in DOMAIN res : ~(res[i] > 0)

\* The e_max test placed before the test for an empty generator matrix
checkRobustEquilibrium_EmaxFirst ==
  \E e_max \in Emaxs :
    /\ op' = "checkRobustEquilibrium"
    /\ args' = [NoArgs EXCEPT !.e_max = e_max]
    /\ lp' = NoCall
    /\ UNCHANGED <<engineVars, m_solver, otherVars>>
    /\ IF e_max # 0
       THEN /\ out' = NoOut
            /\ ret' = "ERROR"
       ELSE IF Cols(m_G_centr) = 0
       THEN /\ out' = OutEquilibrium(FALSE)
            /\ ret' = "OPTIMAL"
       ELSE IF m_algorithm # "PP"
       THEN /\ out' = NoOut
            /\ ret' = "ERROR"
       ELSE \E res \in Residuals :
              /\ out' = OutEquilibrium(AllRowsSatisfied(res))
              /\ ret' = "OPTIMAL"

\* The test of the algorithm selector left out
checkRobustEquilibrium_NoAlgorithmTest ==
  \E e_max \in Emaxs :
    /\ op' = "checkRobustEquilibrium"
    /\ args' = [NoArgs EXCEPT !.e_max = e_max]
    /\ lp' = NoCall
    /\ UNCHANGED <<engineVars, m_solver, otherVars>>
    /\ IF Cols(m_G_centr) = 0
       THEN /\ out' = OutEquilibrium(FALSE)
            /\ ret' = "OPTIMAL"
       ELSE IF e_max # 0
       THEN /\ out' = NoOut
            /\ ret' = "ERROR"
       ELSE \E res \in Residuals :
              /\ out' = OutEquilibrium(AllRowsSatisfied(res))
              /\ ret' = "OPTIMAL"

checkRobustEquilibrium ==
  \E e_max \in Emaxs :
    /\ op' = "checkRobustEquilibrium"
    /\ args' = [NoArgs EXCEPT !.e_max = e_max]
    /\ lp' = NoCall
    /\ UNCHANGED <<engineVars, m_solver, otherVars>>
    /\ IF Cols(m_G_centr) = 0
       THEN /\ out' = OutEquilibrium(FALSE)
            /\ ret' = "OPTIMAL"
       ELSE IF e_max # 0
       THEN /\ out' = NoOut
            /\ ret' = "ERROR"
       ELSE IF m_algorithm # "PP"
       THEN /\ out' = NoOut
            /\ ret' = "ERROR"
       ELSE \E res \in Residuals :
              /\ out' = OutEquilibrium(AllRowsSatisfied(res))
              /\ ret' = "OPTIMAL"

----------------------------------------------------------------------------
\* LP_status StaticEquilibrium::findExtremumOverLine(a, a0, e_max, com)

findExtremumOverLine ==
  \E a \in Dirs, a0 \in Origins :
    /\ op' = "findExtremumOverLine"
    /\ args' = [NoArgs EXCEPT !.a = a, !.a0 = a0]
    /\ UNCHANGED <<engineVars, otherVars>>
    /\ IF Cols(m_G_centr) = 0
       THEN /\ ret' = "INFEASIBLE"
            /\ lp' = NoCall
            /\ out' = NoOut
            /\ UNCHANGED m_solver
       ELSE IF m_algorithm = "LP"
       THEN \E st \in LPStatus, obj \in ObjValues :
              /\ lp' = Solved(st, obj)
              /\ Solver_solve(obj)
              /\ out' = OutCom(LinePrimalCom(st, a, a0, lp'.sol))
              /\ ret' = LinePrimalStatus(st)
       ELSE IF m_algorithm = "DLP"
       THEN \E st \in LPStatus, obj \in ObjValues :
              /\ lp' = Solved(st, obj)
              /\ Solver_solve(obj)
              /\ out' = OutCom(LineDualCom(st, a, a0, Solver_getObjectiveValue'))
              /\ ret' = LineDualReturn(st, Solver_getObjectiveValue')
       ELSE /\ ret' = "ERROR"
            /\ lp' = NoCall
            /\ out' = NoOut
            /\ UNCHANGED m_solver

----------------------------------------------------------------------------
\* LP_status StaticEquilibrium::findExtremumInDirection(direction, com, e_max)

\* The test for an empty generator matrix inverted
findExtremumInDirection_TestInverted ==
  /\ op' = "findExtremumInDirection"
  /\ args' = NoArgs
  /\ lp' = NoCall
  /\ out' = NoOut
  /\ UNCHANGED <<engineVars, m_solver, otherVars>>
  /\ ret' = IF Cols(m_G_centr) # 0 THEN "INFEASIBLE" ELSE "ERROR"

findExtremumInDirection ==
  /\ op' = "findExtremumInDirection"
  /\ args' = NoArgs
  /\ lp' = NoCall
  /\ out' = NoOut
  /\ UNCHANGED <<engineVars, m_solver, otherVars>>
  /\ ret' = IF Cols(m_G_centr) = 0 THEN "INFEASIBLE" ELSE "ERROR"

----------------------------------------------------------------------------
\* The engine after StaticEquilibrium::StaticEquilibrium(name, mass,
\* generatorsPerContact, solver_type, useWarmStart). The constructor assigns
\* neither m_algorithm nor m_b0_to_emax_coefficient: they hold any value.

ClampGenerators(g) == IF g < MinGeneratorsPerContact THEN MinGeneratorsPerContact ELSE g

QueriesIdle == [t \in {} |-> 0]

OtherInit ==
  /\ qpc = QueriesIdle
  /\ m_is_cdd_initialized = TRUE
  /\ initCalls = 1
  /\ ctor = <<>>
  /\ b_A = <<>>
  /\ linset = {}
  /\ rowMajor = TRUE
  /\ m_H = <<>>
  /\ m_h = <<>>
  /\ ppDone = FALSE

Init ==
  /\ m_algorithm \in Algorithms
  /\ m_G_centr = <<>>
  /\ m_b0_to_emax_coefficient \in CoefValues
  /\ m_HD = NoHalfSpace
  /\ m_solver_type \in SolverTypes
  /\ \E g \in 2..3 : m_generatorsPerContact = ClampGenerators(g)
  /\ m_solver \in ObjValues
  /\ op = "construct"
  /\ args = NoArgs
  /\ ret = "none"
  /\ lp = NoCall
  /\ out = NoOut
  /\ OtherInit

Next ==
  \/ setNewContacts
  \/ computeEquilibriumRobustness
  \/ checkRobustEquilibrium
  \/ findExtremumOverLine
  \/ findExtremumInDirection

Spec == Init /\ [][Next]_vars

----------------------------------------------------------------------------
\* Claims about the engine, checked under Spec

\* C1: a setNewContacts call given a contact normal whose norm differs from 1
\* by more than 1e-6 returns false and leaves the algorithm selector, the
\* generator matrix, the b0-to-emax coefficient and the cached half-space data
\* as they were before the call.
C1_BadNormalLeavesEngineUnchanged ==
  [][(op' = "setNewContacts" /\ args'.badNormal # 0)
       => /\ ret' = "false"
          /\ m_algorithm' = m_algorithm
          /\ m_G_centr' = m_G_centr
          /\ m_b0_to_emax_coefficient' = m_b0_to_emax_coefficient
          /\ m_HD' = m_HD]_vars

\* checkRobustEquilibrium got as far as computing res = m_HD * com + m_Hd
EvaluatedInequalities ==
  /\ op = "checkRobustEquilibrium"
  /\ Cols(m_G_centr) # 0
  /\ out.written

\* C3: whenever checkRobustEquilibrium evaluates the inequality test, the
\* cached H*D and H*d were built, and were built from the generator matrix the
\* engine holds now.
C3_CheckUsesCurrentHalfSpace ==
  EvaluatedInequalities => (m_HD.built /\ m_HD.src = m_G_centr)

\* C4: with a generator matrix without columns, computeEquilibriumRobustness
\* and findExtremumOverLine return INFEASIBLE and checkRobustEquilibrium
\* reports equilibrium = false, whatever the selector and the input, and none
\* of them calls the LP solver.
C4_EmptyConfiguration ==
  Cols(m_G_centr) = 0 =>
    /\ op \in {"computeEquilibriumRobustness", "findExtremumOverLine"}
         => (ret = "INFEASIBLE" /\ ~lp.called)
    /\ op = "checkRobustEquilibrium"
         => (out.written /\ out.equilibrium = FALSE /\ ~lp.called)

C4_Witness ==
  /\ Cols(m_G_centr) = 0
  /\ op = "checkRobustEquilibrium"
  /\ args.e_max # 0
  /\ m_algorithm = "DLP"
  /\ out.written
  /\ ~out.equilibrium

\* C5: on a non-empty configuration the returned status follows the solver's:
\* with LP and LP2 it is the solver's status; with DLP, INFEASIBLE comes back
\* as UNBOUNDED, UNBOUNDED as INFEASIBLE and ERROR as ERROR; a solver status
\* other than OPTIMAL never comes back as OPTIMAL.
C5_StatusMapping ==
  (op \in {"computeEquilibriumRobustness", "findExtremumOverLine"} /\ lp.called) =>
    /\ m_algorithm \in {"LP", "LP2"} => ret = lp.status
    /\ m_algorithm = "DLP" =>
         /\ lp.status = "INFEASIBLE" => ret = "UNBOUNDED"
         /\ lp.status = "UNBOUNDED" => ret = "INFEASIBLE"
         /\ lp.status = "ERROR" => ret = "ERROR"
    /\ lp.status # "OPTIMAL" => ret # "OPTIMAL"

C5_Witness ==
  /\ op = "findExtremumOverLine"
  /\ m_algorithm = "DLP"
  /\ lp.called
  /\ lp.status = "INFEASIBLE"
  /\ ret = "UNBOUNDED"

\* C6 as stated: in every engine state, a checkRobustEquilibrium call whose
\* selector is not PP, or whose e_max is not 0, returns the error status and
\* no equilibrium answer.
C6_ErrorOutsideSupportedCase ==
  (op = "checkRobustEquilibrium" /\ (m_algorithm # "PP" \/ args.e_max # 0))
    => (ret = "ERROR" /\ ~out.written)

\* C6 amended: the same in every engine state whose generator matrix has at
\* least one column.
C6_ErrorOutsideSupportedCaseNonEmpty ==
  (op = "checkRobustEquilibrium" /\ Cols(m_G_centr) # 0
     /\ (m_algorithm # "PP" \/ args.e_max # 0))
    => (ret = "ERROR" /\ ~out.written)

C6_Witness ==
  /\ op = "checkRobustEquilibrium"
  /\ Cols(m_G_centr) # 0
  /\ m_algorithm = "LP"
  /\ args.e_max = 0
  /\ ret = "ERROR"

\* C8 as stated: findExtremumInDirection returns the error status on every
\* call, in every engine state.
C8_AlwaysNotImplemented ==
  op = "findExtremumInDirection" => ret = "ERROR"

\* C8 amended: findExtremumInDirection returns the error status on every call
\* on a generator matrix with at least one column, and INFEASIBLE on one
\* without columns.
C8_NotImplementedUnlessEmpty ==
  op = "findExtremumInDirection" =>
    ret = (IF Cols(m_G_centr) = 0 THEN "INFEASIBLE" ELSE "ERROR")

C8_Witness ==
  /\ op = "findExtremumInDirection"
  /\ Cols(m_G_centr) # 0
  /\ ret = "ERROR"

\* C9: findExtremumOverLine with the primal LP on a non-empty configuration:
\* solver status OPTIMAL with line parameter t* gives status OPTIMAL and
\* CoM a0 + a*t*; any other solver status gives CoM a0 and that status.
C9_PrimalLineResult ==
  (op = "findExtremumOverLine" /\ m_algorithm = "LP" /\ Cols(m_G_centr) # 0) =>
    /\ lp.called
    /\ out.written
    /\ IF lp.status = "OPTIMAL"
       THEN /\ ret = "OPTIMAL"
            /\ out.com = VecAdd(args.a0, VecScale(args.a, lp.sol))
       ELSE /\ ret = lp.status
            /\ out.com = args.a0

C9_Witness ==
  /\ op = "findExtremumOverLine"
  /\ m_algorithm = "LP"
  /\ Cols(m_G_centr) # 0
  /\ lp.called
  /\ lp.status = "OPTIMAL"
  /\ ret = "OPTIMAL"
  /\ out.com # args.a0

\* The dual problem of the last findExtremumOverLine call was found unbounded:
\* the solver said so, or it said OPTIMAL and the QPOASES threshold applied
DualFoundUnbounded ==
  \/ lp.status = "UNBOUNDED"
  \/ /\ lp.status = "OPTIMAL"
     /\ m_solver_type = "QPOASES"
     /\ Solver_getObjectiveValue < -10000000

\* C11: findExtremumOverLine with the dual LP on a non-empty configuration:
\* every call that returns a status other than OPTIMAL returns the CoM a0,
\* the call whose unboundedness is inferred from an objective value below
\* -1e7 with QPOASES included; and a dual problem found unbounded is returned
\* with the status of a solver-reported UNBOUNDED, however it was found.
C11_DualLineFailureResult ==
  (op = "findExtremumOverLine" /\ m_algorithm = "DLP" /\ Cols(m_G_centr) # 0) =>
    /\ lp.called
    /\ out.written
    /\ ret # "OPTIMAL" => out.com = args.a0
    /\ DualFoundUnbounded => ret = LineDualStatus("UNBOUNDED")

----------------------------------------------------------------------------
\* Queries of several threads on one engine whose configuration is fixed.
\* A thread is between two calls on the solver handle m_solver where the code
\* makes two: m_solver->solve(...) and then m_solver->getObjectiveValue().

QueryThreads == 1..NumQueryThreads

\* An LP handed to the solver, named by the answer the solver gives to it
Problems == [status : LPStatus, obj : ObjValues]

IdleQuery == [pc |-> "idle", fn |-> "none", prob |-> [status |-> "ERROR", obj |-> 0],
              a |-> ZeroVec, a0 |-> ZeroVec, ret |-> "none", out |-> NoOut]

\* The query reads the objective value back from the solver handle
ReadsObjective(fn, alg) ==
  \/ fn = "computeEquilibriumRobustness"
  \/ fn = "findExtremumOverLine" /\ alg = "DLP"

\* Result of query q once solve returned q.prob.status, the solution vector
\* of q.prob and, where read, getObjectiveValue() returned obj
QueryStatus(q, obj) ==
  IF q.fn = "computeEquilibriumRobustness" THEN RobustnessStatus(m_algorithm, q.prob.status)
  ELSE IF m_algorithm = "LP" THEN LinePrimalStatus(q.prob.status)
  ELSE IF m_algorithm = "DLP" THEN LineDualReturn(q.prob.status, obj)
  ELSE "ERROR"

QueryOut(q, obj) ==
  IF q.fn = "computeEquilibriumRobustness"
  THEN IF q.prob.status = "OPTIMAL"
       THEN OutRobustness(RobustnessValue(m_algorithm, obj))
       ELSE NoOut
  ELSE IF m_algorithm = "LP"
  THEN OutCom(LinePrimalCom(q.prob.status, q.a, q.a0, Solved(q.prob.status, q.prob.obj).sol))
  ELSE IF m_algorithm = "DLP"
  THEN OutCom(LineDualCom(q.prob.status, q.a, q.a0, obj))
  ELSE NoOut

queryFrame == <<engineVars, callVars, cddVars, ppVars>>

\* The call is entered, up to the call of solve
QueryEnter(t) ==
  /\ qpc[t].pc = "idle"
  /\ \E fn \in {"computeEquilibriumRobustness", "findExtremumOverLine"},
        prob \in Problems, a \in Dirs, a0 \in Origins :
       LET q == [IdleQuery EXCEPT !.fn = fn, !.prob = prob, !.a = a, !.a0 = a0]
       IN IF fn = "findExtremumOverLine" /\ m_algorithm \notin {"LP", "DLP"}
          THEN qpc' = [qpc EXCEPT ![t] = [q EXCEPT !.pc = "done",
                                                    !.ret = QueryStatus(q, prob.obj),
                                                    !.out = QueryOut(q, prob.obj)]]
          ELSE qpc' = [qpc EXCEPT ![t] = [q EXCEPT !.pc = "solve"]]
  /\ UNCHANGED <<m_solver, queryFrame>>

\* m_solver->solve(...) runs and returns
QuerySolve(t) ==
  /\ qpc[t].pc = "solve"
  /\ Solver_solve(qpc[t].prob.obj)
  /\ LET q == qpc[t]
     IN IF q.prob.status = "OPTIMAL" /\ ReadsObjective(q.fn, m_algorithm)
        THEN qpc' = [qpc EXCEPT ![t].pc = "read"]
        ELSE qpc' = [qpc EXCEPT ![t] = [q EXCEPT !.pc = "done",
                                                  !.ret = QueryStatus(q, q.prob.obj),
                                                  !.out = QueryOut(q, q.prob.obj)]]
  /\ UNCHANGED queryFrame

\* m_solver->getObjectiveValue() is read and the call returns
QueryRead(t) ==
  /\ qpc[t].pc = "read"
  /\ LET q == qpc[t]
     IN qpc' = [qpc EXCEPT ![t] = [q EXCEPT !.pc = "done",
                                             !.ret = QueryStatus(q, Solver_getObjectiveValue),
                                             !.out = QueryOut(q, Solver_getObjectiveValue)]]
  /\ UNCHANGED <<m_solver, queryFrame>>

QueriesInit ==
  /\ m_algorithm \in {"LP", "LP2", "DLP"}
  /\ \E c \in Contacts, mu \in Mus :
       /\ ~BadNormal(c.n)
       /\ m_G_centr = <<Block(c, mu)>>
       /\ m_b0_to_emax_coefficient = ConeCoefficient(mu)
  /\ m_HD = NoHalfSpace
  /\ m_solver_type \in SolverTypes
  /\ m_generatorsPerContact = ClampGenerators(MinGeneratorsPerContact)
  /\ m_solver \in ObjValues
  /\ op = "setNewContacts"
  /\ args = NoArgs
  /\ ret = "true"
  /\ lp = NoCall
  /\ out = NoOut
  /\ qpc = [t \in QueryThreads |-> IdleQuery]
  /\ m_is_cdd_initialized = TRUE
  /\ initCalls = 1
  /\ ctor = <<>>
  /\ b_A = <<>>
  /\ linset = {}
  /\ rowMajor = TRUE
  /\ m_H = <<>>
  /\ m_h = <<>>
  /\ ppDone = FALSE

QueriesNext ==
  \E t \in QueryThreads :
    \/ QueryEnter(t)
    \/ QuerySolve(t)
    \/ QueryRead(t)

SpecQueries == QueriesInit /\ [][QueriesNext]_vars

\* C2: a query that runs concurrently with another query on the same engine
\* returns the status and the robustness / CoM it returns when it runs alone,
\* that is, those computed from the solver's answer to its own LP.
C2_ConcurrentQueriesIndependent ==
  \A t \in QueryThreads :
    qpc[t].pc = "done" =>
      /\ qpc[t].ret = QueryStatus(qpc[t], qpc[t].prob.obj)
      /\ qpc[t].out = QueryOut(qpc[t], qpc[t].prob.obj)

----------------------------------------------------------------------------
\* Construction of engines by several threads: the part of the constructor
\* that initialises cddlib once per process.

CtorThreads == 1..NumCtorThreads

\* void init_cdd_library(): dd_set_global_constants()
init_cdd_library == initCalls' = initCalls + 1

ctorFrame == <<engineVars, m_solver, callVars, qpc, ppVars>>

\* if(!m_is_cdd_initialized)
CtorTest(t) ==
  /\ ctor[t].pc = "start"
  /\ ctor' = [ctor EXCEPT ![t].pc = IF ~m_is_cdd_initialized THEN "init" ELSE "rest"]
  /\ UNCHANGED <<m_is_cdd_initialized, initCalls, ctorFrame>>

\* init_cdd_library();
CtorInitLibrary(t) ==
  /\ ctor[t].pc = "init"
  /\ init_cdd_library
  /\ ctor' = [ctor EXCEPT ![t].pc = "set"]
  /\ UNCHANGED <<m_is_cdd_initialized, ctorFrame>>

\* m_is_cdd_initialized = true;
CtorSetFlag(t) ==
  /\ ctor[t].pc = "set"
  /\ m_is_cdd_initialized' = TRUE
  /\ ctor' = [ctor EXCEPT ![t].pc = "rest"]
  /\ UNCHANGED <<initCalls, ctorFrame>>

\* The rest of the constructor; the thread may then construct another engine
CtorFinish(t) ==
  /\ ctor[t].pc = "rest"
  /\ ctor' = [ctor EXCEPT ![t] = [pc |-> IF ctor[t].built + 1 < MaxEngines
                                         THEN "start" ELSE "idle",
                                  built |-> ctor[t].built + 1]]
  /\ UNCHANGED <<m_is_cdd_initialized, initCalls, ctorFrame>>

CddInit ==
  /\ m_is_cdd_initialized = FALSE
  /\ initCalls = 0
  /\ ctor = [t \in CtorThreads |-> [pc |-> "start", built |-> 0]]
  /\ m_algorithm = "LP"
  /\ m_G_centr = <<>>
  /\ m_b0_to_emax_coefficient = ConeCoefficient(1)
  /\ m_HD = NoHalfSpace
  /\ m_solver_type = "QPOASES"
  /\ m_generatorsPerContact = ClampGenerators(MinGeneratorsPerContact)
  /\ m_solver = 2
  /\ op = "construct"
  /\ args = NoArgs
  /\ ret = "none"
  /\ lp = NoCall
  /\ out = NoOut
  /\ qpc = QueriesIdle
  /\ b_A = <<>>
  /\ linset = {}
  /\ rowMajor = TRUE
  /\ m_H = <<>>
  /\ m_h = <<>>
  /\ ppDone = FALSE

CddNext ==
  \E t \in CtorThreads :
    \/ CtorTest(t)
    \/ CtorInitLibrary(t)
    \/ CtorSetFlag(t)
    \/ CtorFinish(t)

SpecCdd == CddInit /\ [][CddNext]_vars

\* C7: however many engines are constructed, by however many threads,
\* init_cdd_library is run by exactly one constructor: never twice, and once
\* as soon as a constructor is past the initialisation; and the flag, once
\* true, stays true.
C7_InitializedExactlyOnce ==
  /\ initCalls <= 1
  /\ (\E t \in CtorThreads : ctor[t].pc \in {"rest", "idle"} \/ ctor[t].built > 0)
       => (initCalls = 1 /\ m_is_cdd_initialized)

C7_FlagStaysTrue == [][m_is_cdd_initialized => m_is_cdd_initialized']_vars

----------------------------------------------------------------------------
\* bool StaticEquilibrium::computePolytopeProjection(v), from the copy of the
\* inequalities b_A returned by the double-description routine on: row i of
\* b_A is <<b_i, A_i1, .., A_in>> and linset holds the numbers (from 1) of its
\* equality rows.

EntryValues == {-1, 1}
\* Content of storage that resize() allocated and nothing has written
UnwrittenValues == {-1, 0, 1}

\* for(elem=1; elem<=linset[0]; ++elem) if(set_member(elem, linset)) push_back
RECURSIVE EqRows(_, _)
EqRows(elem, n) ==
  IF elem > n THEN <<>>
  ELSE (IF elem \in linset THEN <<elem>> ELSE <<>>) \o EqRows(elem + 1, n)

\* Row and column (from 1) of the coefficient with 0-based index L in the
\* storage of a matrix of R rows and C columns
LinearRow(L, R, C) == IF rowMajor THEN (L \div C) + 1 ELSE (L % R) + 1
LinearCol(L, R, C) == IF rowMajor THEN (L % C) + 1 ELSE (L \div R) + 1

\* The first loop: m_h(i) = b_i and m_H(i, j-1) = -A_ij for the rows of b_A;
\* the rows after them keep what the storage held
FirstLoopH(unwrittenH) ==
  [i \in 1..(Len(b_A) + Cardinality(linset)) |->
     IF i <= Len(b_A) THEN [j \in 1..HColumns |-> -b_A[i][j + 1]] ELSE unwrittenH[i]]
FirstLooph(unwrittenh) ==
  [i \in 1..(Len(b_A) + Cardinality(linset)) |->
     IF i <= Len(b_A) THEN b_A[i][1] ELSE unwrittenh[i]]

\* One pass of the second loop, for the i-th (from 0) equality row *cit:
\* m_h(rowsize + i) = -m_h(*cit); m_H(rowsize + i) = -m_H(*cit), both with
\* 0-based indices, the second a single coefficient of m_H
SecondLoopStep(Hh, cit, i) ==
  LET H == Hh[1]
      h == Hh[2]
      R == Len(H)
      dst == Len(b_A) + i
  IN << [H EXCEPT ![LinearRow(dst, R, HColumns)][LinearCol(dst, R, HColumns)] =
                    -H[LinearRow(cit, R, HColumns)][LinearCol(cit, R, HColumns)]],
        [h EXCEPT ![dst + 1] = -h[cit + 1]] >>

RECURSIVE SecondLoop(_, _, _)
SecondLoop(Hh, eq_rows, i) ==
  IF i >= Len(eq_rows) THEN Hh
  ELSE SecondLoop(SecondLoopStep(Hh, eq_rows[i + 1], i), eq_rows, i + 1)

computePolytopeProjection ==
  /\ ~ppDone
  /\ LET rowsize == Len(b_A)
         eq_rows == EqRows(1, rowsize)
         added == (rowsize + 1)..(rowsize + Len(eq_rows))
     IN \E unwrittenH \in [added -> [1..HColumns -> UnwrittenValues]],
           unwrittenh \in [added -> UnwrittenValues] :
          LET Hh == SecondLoop(<<FirstLoopH(unwrittenH), FirstLooph(unwrittenh)>>,
                               eq_rows, 0)
          IN /\ m_H' = Hh[1]
             /\ m_h' = Hh[2]
  /\ ppDone' = TRUE
  /\ UNCHANGED <<b_A, linset, rowMajor, engineVars, m_solver, callVars, qpc, cddVars>>

ProjectionInit ==
  /\ \E rowsize \in 0..MaxRowsize :
       /\ b_A \in [1..rowsize -> [1..(HColumns + 1) -> EntryValues]]
       /\ linset \in SUBSET (1..rowsize)
  /\ rowMajor \in BOOLEAN
  /\ m_H = <<>>
  /\ m_h = <<>>
  /\ ppDone = FALSE
  /\ m_algorithm = "PP"
  /\ m_G_centr = <<>>
  /\ m_b0_to_emax_coefficient = ConeCoefficient(1)
  /\ m_HD = NoHalfSpace
  /\ m_solver_type = "QPOASES"
  /\ m_generatorsPerContact = ClampGenerators(MinGeneratorsPerContact)
  /\ m_solver = 2
  /\ op = "setNewContacts"
  /\ args = NoArgs
  /\ ret = "none"
  /\ lp = NoCall
  /\ out = NoOut
  /\ qpc = QueriesIdle
  /\ m_is_cdd_initialized = TRUE
  /\ initCalls = 1
  /\ ctor = <<>>

ProjectionNext == computePolytopeProjection

SpecProjection == ProjectionInit /\ [][ProjectionNext]_vars

\* C10: the stored system has one row per row of the routine, equal to
\* (-A_i, b_i), and after them one row per equality row e, equal to the
\* negation of stored row e in every column of H and in h.
C10_EqualityRowsNegated ==
  ppDone =>
    LET rowsize == Len(b_A)
        eq_rows == EqRows(1, rowsize)
    IN /\ Len(m_H) = rowsize + Len(eq_rows)
       /\ Len(m_h) = rowsize + Len(eq_rows)
       /\ \A i \in 1..rowsize :
            /\ m_h[i] = b_A[i][1]
            /\ \A j \in 1..HColumns : m_H[i][j] = -b_A[i][j + 1]
       /\ \A k \in 1..Len(eq_rows) :
            /\ m_h[rowsize + k] = -m_h[eq_rows[k]]
            /\ \A j \in 1..HColumns : m_H[rowsize + k][j] = -m_H[eq_rows[k]][j]

====
